---- MODULE Spec2Model ----
(***************************************************************************)
(* Model of the job store (src/db/jobs.rs) and of the decision workflow    *)
(* (src/handlers/decision.rs) of triagebot.                                *)
(*                                                                         *)
(* Time is counted in minutes.  An Option<T> value is a set with at most   *)
(* one element: {} is None / SQL NULL, {v} is Some(v).                     *)
(***************************************************************************)
EXTENDS Integers, Sequences, FiniteSets, TLC

VARIABLES
    jobs,        \* the rows of the jobs table
    nextId,      \* the next row id the jobs table generates
    now,         \* the database / wall clock, in minutes
    due,         \* the rows returned by the last get_jobs_to_execute
    dueAt,       \* Some(clock value) of the last get_jobs_to_execute
    decisions,   \* the rows of the issue_decision_state table, in insertion order
    pc,          \* per handle_command invocation: the await point it is at
    cmd,         \* per invocation: its event and command (issue, user, resolution, team)
    loc,         \* per invocation: the locals of handle_command
    comments,    \* per invocation: the comments it has posted, in order
    labels,      \* per invocation: the labels it has applied
    render,      \* a call of build_status_comment: its arguments and its result
    cron,        \* a call of get_duration_from_cron: its arguments and its result
    exec         \* the last job execution: the job, the handler run and what it did

vars == <<jobs, nextId, now, due, dueAt, decisions, pc, cmd, loc, comments, labels,
          render, cron, exec>>

auxVars == <<render, cron, exec>>

jobVars == <<jobs, nextId, due, dueAt>>
cmdVars == <<decisions, pc, cmd, loc, comments, labels>>

----------------------------------------------------------------------------
(* Bounds of the model *)

MaxJobs == 2          \* rows the jobs table ever generates an id for
MaxClockJobs == 60    \* the clock stops here under SpecJobs
MaxClock == 14400     \* the clock stops here under Spec

(* Program constants *)

RETRY_MINUTES == 60          \* INTERVAL '60 minutes'
DECISION_DAYS == 10          \* Duration::days(10)
MINUTES_PER_DAY == 1440      \* a chrono day, in the model's time unit

DECISION_PROCESS_JOB_NAME == "decision_process_action"

----------------------------------------------------------------------------
(* The jobs table: src/db/jobs.rs *)

JobType == {"Cron", "SingleExecution"}
CronUnit == {"Day", "Hour", "Minute", "Second"}

NewJob(id, name, job_type, expected_time, cron_period, cron_unit, metadata) ==
    [id |-> id, name |-> name, job_type |-> job_type,
     expected_time |-> expected_time,
     cron_period |-> cron_period, cron_unit |-> cron_unit,
     metadata |-> metadata,
     executed_at |-> {}, error_message |-> {}]

Conflicts(rows, name, expected_time) ==
    {j \in rows : j.name = name /\ j.expected_time = expected_time}

(* insert_job with ON CONFLICT ... DO UPDATE SET metadata = EXCLUDED.metadata
   dropped: every request becomes a new row. *)
InsertJobRowsNoConflict(rows, id, name, job_type, expected_time, cron_period, cron_unit, metadata) ==
    rows \cup {NewJob(id, name, job_type, expected_time, cron_period, cron_unit, metadata)}

(* insert_job with DO UPDATE SET of every column of the request instead of
   the metadata alone. *)
InsertJobRowsOverwrite(rows, id, name, job_type, expected_time, cron_period, cron_unit, metadata) ==
    IF Conflicts(rows, name, expected_time) # {}
    THEN {IF j \in Conflicts(rows, name, expected_time)
          THEN [j EXCEPT !.metadata = metadata, !.job_type = job_type,
                         !.cron_period = cron_period, !.cron_unit = cron_unit]
          ELSE j : j \in rows}
    ELSE rows \cup {NewJob(id, name, job_type, expected_time, cron_period, cron_unit, metadata)}

(* INSERT INTO jobs (...) VALUES (...)
   ON CONFLICT (name, expected_time) DO UPDATE SET metadata = EXCLUDED.metadata *)
InsertJobRows(rows, id, name, job_type, expected_time, cron_period, cron_unit, metadata) ==
    IF Conflicts(rows, name, expected_time) # {}
    THEN {IF j \in Conflicts(rows, name, expected_time)
          THEN [j EXCEPT !.metadata = metadata]
          ELSE j : j \in rows}
    ELSE rows \cup {NewJob(id, name, job_type, expected_time, cron_period, cron_unit, metadata)}

(* The id column is generated by the table, only for a row that is added. *)
NextIdAfter(rows, rows2, id) ==
    IF \E j \in rows2 : j.id = id /\ j \notin rows THEN id + 1 ELSE id

(* expected_time <= now() *)
ExpectedTimeReached(j, t) == j.expected_time <= t

(* The WHERE clause without its first conjunct. *)
IsDueNoExpectedTime(j, t) ==
    j.error_message = {} \/ \E e \in j.executed_at : e <= t - RETRY_MINUTES

(* The WHERE clause with the retry window ignored. *)
IsDueNoBackoff(j, t) ==
    ExpectedTimeReached(j, t)

(* The WHERE clause with a job that has been executed held back for the retry
   window whether it failed or not. *)
IsDueOnceExecuted(j, t) ==
    /\ ExpectedTimeReached(j, t)
    /\ \/ j.error_message = {} /\ j.executed_at = {}
       \/ \E e \in j.executed_at : e <= t - RETRY_MINUTES

(* WHERE expected_time <= now()
     AND (error_message IS NULL OR executed_at <= now() - INTERVAL '60 minutes')
   A NULL executed_at makes the comparison unknown, which selects nothing. *)
IsDue(j, t) ==
    /\ ExpectedTimeReached(j, t)
    /\ \/ j.error_message = {}
       \/ \E e \in j.executed_at : e <= t - RETRY_MINUTES

DueJobs(rows, t) == {j \in rows : IsDue(j, t)}

(* insert_job *)
InsertJob(name, job_type, expected_time, cron_period, cron_unit, metadata) ==
    /\ nextId <= MaxJobs \/ Conflicts(jobs, name, expected_time) # {}
    /\ jobs' = InsertJobRows(jobs, nextId, name, job_type, expected_time,
                             cron_period, cron_unit, metadata)
    /\ nextId' = NextIdAfter(jobs, jobs', nextId)
    /\ UNCHANGED <<auxVars, now, due, dueAt, cmdVars>>

(* delete_job: DELETE FROM jobs WHERE id = $1 *)
DeleteJob(id) ==
    /\ jobs' = {j \in jobs : j.id # id}
    /\ UNCHANGED <<auxVars, nextId, now, due, dueAt, cmdVars>>

(* UPDATE jobs SET error_message = $2, executed_at = now() WHERE id = $1 *)
UpdateJobErrorMessageAndExecutedAt(id, message) ==
    /\ jobs' = {IF j.id = id
                THEN [j EXCEPT !.error_message = {message}, !.executed_at = {now}]
                ELSE j : j \in jobs}
    /\ UNCHANGED <<auxVars, nextId, now, due, dueAt, cmdVars>>

(* update_job_error_message: UPDATE jobs SET error_message = $2 WHERE id = $1 *)
UpdateJobErrorMessage(id, message) ==
    /\ jobs' = {IF j.id = id THEN [j EXCEPT !.error_message = {message}] ELSE j : j \in jobs}
    /\ UNCHANGED <<auxVars, nextId, now, due, dueAt, cmdVars>>

(* update_job_executed_at: UPDATE jobs SET executed_at = now() WHERE id = $1 *)
UpdateJobExecutedAt(id) ==
    /\ jobs' = {IF j.id = id THEN [j EXCEPT !.executed_at = {now}] ELSE j : j \in jobs}
    /\ UNCHANGED <<auxVars, nextId, now, due, dueAt, cmdVars>>

(* get_jobs_to_execute *)
GetJobsToExecute ==
    /\ due' = DueJobs(jobs, now)
    /\ dueAt' = {now}
    /\ UNCHANGED <<auxVars, jobs, nextId, now, cmdVars>>

(* The clock advances by d minutes, up to max. *)
Tick(d, max) ==
    /\ now + d <= max
    /\ now' = now + d
    /\ UNCHANGED <<auxVars, jobVars, cmdVars>>

----------------------------------------------------------------------------
(* Inputs of the job store operations *)

Request(name, job_type, expected_time, cron_period, cron_unit, metadata) ==
    [name |-> name, job_type |-> job_type, expected_time |-> expected_time,
     cron_period |-> cron_period, cron_unit |-> cron_unit, metadata |-> metadata]

ErrorMessages == {"failed"}
JobTicks == {RETRY_MINUTES - 1, RETRY_MINUTES}

RepoUrl == "https://api.github.com/repos/rust-lang/rust"

(* format!("{}/issues/{}", issue.repository().url(..), issue.number) *)
IssueUrl(number) == <<RepoUrl, "issues", number>>

Resolutions == {"Merge", "Hold"}

(* serde_json::to_value(DecisionProcessActionMetadata {..}) *)
Metadata(url, resolution) ==
    [message |-> "some message", get_issue_url |-> url, status |-> resolution]

(* Two requests with one (name, expected_time) and nothing else in common, one
   with the same name at another time, one with another name at the same time. *)
Requests ==
    {Request("docs_update", "SingleExecution", RETRY_MINUTES - 1, {}, {},
             Metadata(IssueUrl(1), "Merge")),
     Request("docs_update", "Cron", RETRY_MINUTES - 1, {2}, {"Hour"},
             Metadata(IssueUrl(1), "Hold")),
     Request("docs_update", "SingleExecution", 2 * RETRY_MINUTES - 1, {}, {},
             Metadata(IssueUrl(1), "Merge")),
     Request(DECISION_PROCESS_JOB_NAME, "SingleExecution", RETRY_MINUTES - 1, {}, {},
             Metadata(IssueUrl(1), "Hold"))}

JobIds == 1..MaxJobs

----------------------------------------------------------------------------
(* The decision workflow: src/handlers/decision.rs *)

Procs == {1, 2}
Issues == {1, 2}
Users == {"alice", "carol"}

(* String order of the participant identities (BTreeMap<String, _> iterates
   in it). *)
UserRank == [u \in {"alice", "bob", "carol"} |->
                IF u = "alice" THEN 1 ELSE IF u = "bob" THEN 2 ELSE 3]

(* The team directory behind github::get_team: the rosters of the known teams. *)
Teams == [t \in {"compiler"} |-> {"alice", "bob"}]
TeamNames == {"compiler", "nope"}

(* impl Display for Resolution *)
Display(resolution) == IF resolution = "Merge" THEN "merge" ELSE "hold"

(* event.html_url() and event.comment_body() of the comment that carries the
   command of invocation p *)
HtmlUrl(p) == <<"https://github.com/rust-lang/rust/issues/comment", p>>
CommentBody(p) == <<"body", p>>

UserStatus(comment_id, text, resolution) ==
    [comment_id |-> comment_id, text |-> text, resolution |-> resolution]

(* Duration::hours(10) in place of Duration::days(10). *)
EndDateHours(start_date) == start_date + DECISION_DAYS * 60

(* start_date.checked_add_signed(Duration::days(10)).unwrap() *)
EndDate(start_date) == start_date + DECISION_DAYS * MINUTES_PER_DAY

(* The issue user inserted before the team members, which resets the vote of
   an issue user who is on the roster. *)
InitialCurrentUserFirst(members, login, status) ==
    [u \in members \cup {login} |-> IF u \in members THEN {} ELSE {status}]

(* The two maps handle_command builds: every team member without a vote and
   with an empty history, then the issue user with the vote cast. *)
InitialCurrent(members, login, status) ==
    [u \in members \cup {login} |-> IF u = login THEN {status} ELSE {}]

InitialHistory(members, login) ==
    [u \in members \cup {login} |-> <<>>]

DecisionRow(issue, initiator, start_date, end_date, current, history, status) ==
    [issue_id |-> issue, initiator |-> initiator, start_date |-> start_date,
     end_date |-> end_date, current |-> current, history |-> history,
     status |-> status]

(* get_issue_decision_state: the rows of the issue; none is the Err. *)
GetIssueDecisionState(rows, issue) ==
    {rows[i] : i \in {k \in DOMAIN rows : rows[k].issue_id = issue}}

(* insert_issue_decision_state: the reference design adds the row with no
   uniqueness guard on the issue. *)
InsertIssueDecisionState(rows, row) == Append(rows, row)

(* The keys of the map from the last to the first. *)
RECURSIVE SortedKeysDescending(_)
SortedKeysDescending(S) ==
    IF S = {} THEN <<>>
    ELSE LET m == CHOOSE u \in S : \A v \in S : UserRank[u] >= UserRank[v]
         IN <<m>> \o SortedKeysDescending(S \ {m})

(* build_status_comment: `for (user, status) in current` visits the keys of
   the BTreeMap in ascending order. *)
RECURSIVE SortedKeys(_)
SortedKeys(S) ==
    IF S = {} THEN <<>>
    ELSE LET m == CHOOSE u \in S : \A v \in S : UserRank[u] <= UserRank[v]
         IN <<m>> \o SortedKeys(S \ {m})

RECURSIVE HistoryItems(_)
HistoryItems(statuses) ==
    IF statuses = <<>> THEN <<>>
    ELSE <<" [~~", Display(Head(statuses).resolution), "~~](",
           Head(statuses).comment_id, ") ">> \o HistoryItems(Tail(statuses))

CurrentItem(status) ==
    IF status = {} THEN <<" ", " |">>
    ELSE LET st == CHOOSE x \in status : TRUE
         IN <<" ", "[**", Display(st.resolution), "**](", st.comment_id, ")", " |">>

(* The loop carried on past a user who has no history, so that the error names
   the last such user. *)
RECURSIVE StatusRowsLastMissing(_, _, _)
StatusRowsLastMissing(keys, history, current) ==
    IF keys = <<>> THEN [err |-> {}, text |-> <<>>]
    ELSE LET user == Head(keys)
             rest == StatusRowsLastMissing(Tail(keys), history, current)
         IN IF rest.err # {} THEN rest
            ELSE IF user \notin DOMAIN history
            THEN [err |-> {<<"user ", user, " not present in history statuses list">>},
                  text |-> <<>>]
            ELSE [err |-> {},
                  text |-> <<"\n| @", user, " |">> \o HistoryItems(history[user])
                           \o CurrentItem(current[user]) \o rest.text]

RECURSIVE StatusRows(_, _, _)
StatusRows(keys, history, current) ==
    IF keys = <<>> THEN [err |-> {}, text |-> <<>>]
    ELSE LET user == Head(keys)
         IN IF user \notin DOMAIN history
            THEN [err |-> {<<"user ", user, " not present in history statuses list">>},
                  text |-> <<>>]
            ELSE LET rest == StatusRows(Tail(keys), history, current)
                 IN [err |-> rest.err,
                     text |-> <<"\n| @", user, " |">> \o HistoryItems(history[user])
                              \o CurrentItem(current[user]) \o rest.text]

BuildStatusComment(history, current) ==
    LET rows == StatusRows(SortedKeys(DOMAIN current), history, current)
    IN [err |-> rows.err,
        text |-> IF rows.err = {}
                 THEN <<"| Team member | State |\n|-------------|-------|">> \o rows.text
                 ELSE <<>>]

UnsupportedComment == "We don't support having more than one vote yet. Coming soon :)"
NotMemberComment == "Only team members can be part of the decision process."
NoTeamComment == "In the first vote, is necessary to specify the team name that will be involved in the decision process."
UnknownTeamComment == "Failed to resolve to a known team."

NoCmd == [issue |-> 0, user |-> "", resolution |-> "", team |-> {}]
NoLoc == [state |-> {}, is_team_member |-> {}, team |-> {},
          start_date |-> {}, end_date |-> {},
          current |-> <<>>, history |-> <<>>]

NoRender == [history |-> <<>>, inserts |-> <<>>, result |-> {}]
NoCron == [cron_period |-> 0, cron_unit |-> "Second", result |-> {}]

InitStores ==
    /\ jobs = {}
    /\ nextId = 1
    /\ now = 0
    /\ due = {}
    /\ dueAt = {}
    /\ decisions = <<>>
    /\ pc = [p \in Procs |-> "idle"]
    /\ cmd = [p \in Procs |-> NoCmd]
    /\ loc = [p \in Procs |-> NoLoc]
    /\ comments = [p \in Procs |-> <<>>]
    /\ labels = [p \in Procs |-> {}]
    /\ exec = {}

Init ==
    /\ InitStores
    /\ render = NoRender
    /\ cron = NoCron

(* The job kind and cron fields of the resolution job: the call in
   handle_command passes the name, the time and the metadata only. *)
DecisionJobType == "SingleExecution"
DecisionCronPeriod == {}
DecisionCronUnit == {}

Return(p, result) == pc' = [pc EXCEPT ![p] = result]

(* ErrorComment::new(&issue, text).post(&ctx.github).await?; Ok(()) *)
PostErrorComment(p, at, text) ==
    /\ pc[p] = at
    /\ \/ /\ comments' = [comments EXCEPT ![p] = Append(@, text)]
          /\ Return(p, "ok")
       \/ /\ Return(p, "err")
          /\ UNCHANGED comments
    /\ UNCHANGED <<auxVars, jobVars, now, decisions, cmd, loc, labels>>

(* A decision command arrives: handle_command is entered. *)
HandleCommand(p, issue, user, resolution, team_name) ==
    /\ pc[p] = "idle"
    /\ cmd' = [cmd EXCEPT ![p] = [issue |-> issue, user |-> user,
                                  resolution |-> resolution, team |-> team_name]]
    /\ pc' = [pc EXCEPT ![p] = "get_state"]
    /\ UNCHANGED <<auxVars, jobVars, now, decisions, loc, comments, labels>>

(* The match with its Ok arm never taken. *)
GetStateNoCheck(p) ==
    /\ pc[p] = "get_state"
    /\ loc' = [loc EXCEPT ![p].state = {FALSE}]
    /\ pc' = [pc EXCEPT ![p] = "is_team_member"]
    /\ UNCHANGED <<auxVars, jobVars, now, decisions, cmd, comments, labels>>

(* match get_issue_decision_state(&db, &issue.number).await *)
GetState(p) ==
    /\ pc[p] = "get_state"
    /\ LET found == GetIssueDecisionState(decisions, cmd[p].issue) # {}
       IN /\ loc' = [loc EXCEPT ![p].state = {found}]
          /\ pc' = [pc EXCEPT ![p] =
                      IF found THEN "post_unsupported" ELSE "is_team_member"]
    /\ UNCHANGED <<auxVars, jobVars, now, decisions, cmd, comments, labels>>

PostUnsupported(p) == PostErrorComment(p, "post_unsupported", UnsupportedComment)

(* The results of user.is_team_member(..).await *)
MemberAnswers == {"Err", "Ok(true)", "Ok(false)"}

(* .unwrap_or(true): a failed lookup counts as membership. *)
UnwrapOrTrue(answer) == answer # "Ok(false)"

(* .unwrap_or(false) *)
UnwrapOrFalse(answer) == answer = "Ok(true)"

(* The match on team_name placed before the membership test. *)
IsTeamMemberAfterTeamName(p, answer) ==
    /\ pc[p] = "is_team_member"
    /\ LET is_team_member == UnwrapOrFalse(answer)
       IN /\ loc' = [loc EXCEPT ![p].is_team_member = {answer}]
          /\ pc' = [pc EXCEPT ![p] =
                      IF cmd[p].team = {} THEN "post_no_team"
                      ELSE IF ~is_team_member THEN "post_not_member"
                      ELSE "get_team"]
    /\ UNCHANGED <<auxVars, jobVars, now, decisions, cmd, comments, labels>>

(* user.is_team_member(&ctx.github).await.unwrap_or(false), then match team_name;
   answer is the lookup's result *)
IsTeamMember(p, answer) ==
    /\ pc[p] = "is_team_member"
    /\ LET is_team_member == UnwrapOrFalse(answer)
       IN /\ loc' = [loc EXCEPT ![p].is_team_member = {answer}]
          /\ pc' = [pc EXCEPT ![p] =
                      IF ~is_team_member THEN "post_not_member"
                      ELSE IF cmd[p].team = {} THEN "post_no_team"
                      ELSE "get_team"]
    /\ UNCHANGED <<auxVars, jobVars, now, decisions, cmd, comments, labels>>

PostNotMember(p) == PostErrorComment(p, "post_not_member", NotMemberComment)

PostNoTeam(p) == PostErrorComment(p, "post_no_team", NoTeamComment)

(* github::get_team: Err, Ok(None) for a name the directory does not know, or
   Ok(Some(team)) *)
GetTeamResult(team_name, failed) ==
    [ok |-> ~failed,
     members |-> IF ~failed /\ team_name \in DOMAIN Teams THEN {Teams[team_name]} ELSE {}]

(* match github::get_team(&ctx.github, &team_name).await; failed is the Err.
   Ok(Some(team)) builds start_date, end_date, current and history. *)
GetTeam(p, failed) ==
    /\ pc[p] = "get_team"
    /\ LET team == GetTeamResult(CHOOSE t \in cmd[p].team : TRUE, failed)
       IN IF team.ok /\ team.members # {}
          THEN LET start_date == now
                   members == CHOOSE m \in team.members : TRUE
                   status == UserStatus(HtmlUrl(p), CommentBody(p), cmd[p].resolution)
               IN /\ loc' = [loc EXCEPT ![p].team = {team},
                                        ![p].start_date = {start_date},
                                        ![p].end_date = {EndDate(start_date)},
                                        ![p].current =
                                            InitialCurrent(members, cmd[p].user, status),
                                        ![p].history =
                                            InitialHistory(members, cmd[p].user)]
                  /\ pc' = [pc EXCEPT ![p] = "insert_state"]
          ELSE /\ loc' = [loc EXCEPT ![p].team = {team}]
               /\ pc' = [pc EXCEPT ![p] = "post_unknown_team"]
    /\ UNCHANGED <<auxVars, jobVars, now, decisions, cmd, comments, labels>>

PostUnknownTeam(p) == PostErrorComment(p, "post_unknown_team", UnknownTeamComment)

(* The job scheduled with no DecisionState persisted before it. *)
InsertStateSkipped(p) ==
    /\ pc[p] = "insert_state"
    /\ pc' = [pc EXCEPT ![p] = "insert_job"]
    /\ UNCHANGED <<auxVars, jobVars, now, decisions, cmd, loc, comments, labels>>

(* insert_issue_decision_state(..).await? *)
InsertState(p) ==
    /\ pc[p] = "insert_state"
    /\ \/ /\ \E s \in loc[p].start_date, e \in loc[p].end_date :
               decisions' = InsertIssueDecisionState(decisions,
                                DecisionRow(cmd[p].issue, cmd[p].user, s, e,
                                            loc[p].current, loc[p].history,
                                            cmd[p].resolution))
          /\ pc' = [pc EXCEPT ![p] = "insert_job"]
       \/ /\ Return(p, "err")
          /\ UNCHANGED decisions
    /\ UNCHANGED <<auxVars, jobVars, now, cmd, loc, comments, labels>>

(* insert_job(&db, &DecisionProcessJob.name(), &end_date, &metadata).await? *)
ScheduleJob(p) ==
    /\ pc[p] = "insert_job"
    /\ \/ /\ \E e \in loc[p].end_date :
               jobs' = InsertJobRows(jobs, nextId, DECISION_PROCESS_JOB_NAME,
                                     DecisionJobType, e, DecisionCronPeriod,
                                     DecisionCronUnit,
                                     Metadata(IssueUrl(cmd[p].issue), cmd[p].resolution))
          /\ nextId' = NextIdAfter(jobs, jobs', nextId)
          /\ pc' = [pc EXCEPT ![p] = "post_status"]
       \/ /\ Return(p, "err")
          /\ UNCHANGED <<jobs, nextId>>
    /\ UNCHANGED <<auxVars, now, due, dueAt, decisions, cmd, loc, comments, labels>>

(* build_status_comment(&history, &current)?, then
   issue.post_comment(&ctx.github, &comment).await.context("post vote comment")? *)
PostStatus(p) ==
    /\ pc[p] = "post_status"
    /\ LET comment == BuildStatusComment(loc[p].history, loc[p].current)
       IN \/ /\ comment.err = {}
             /\ comments' = [comments EXCEPT ![p] = Append(@, comment.text)]
             /\ pc' = [pc EXCEPT ![p] = "add_labels"]
          \/ /\ Return(p, "err")
             /\ UNCHANGED comments
    /\ UNCHANGED <<auxVars, jobVars, now, decisions, cmd, loc, labels>>

(* issue.add_labels(&ctx.github, vec![Label { name: format!("{}", resolution) }])
       .await.context("apply label")?; Ok(()) *)
AddLabels(p) ==
    /\ pc[p] = "add_labels"
    /\ \/ /\ labels' = [labels EXCEPT ![p] = @ \cup {Display(cmd[p].resolution)}]
          /\ Return(p, "ok")
       \/ /\ Return(p, "err")
          /\ UNCHANGED labels
    /\ UNCHANGED <<auxVars, jobVars, now, decisions, cmd, loc, comments>>

CommandTicks == {DECISION_DAYS * MINUTES_PER_DAY}

Next ==
    \/ \E p \in Procs, issue \in Issues, user \in Users, resolution \in Resolutions,
          team_name \in {{}} \cup {{t} : t \in TeamNames} :
          HandleCommand(p, issue, user, resolution, team_name)
    \/ \E p \in Procs : GetState(p)
    \/ \E p \in Procs : PostUnsupported(p)
    \/ \E p \in Procs, answer \in MemberAnswers : IsTeamMember(p, answer)
    \/ \E p \in Procs : PostNotMember(p)
    \/ \E p \in Procs : PostNoTeam(p)
    \/ \E p \in Procs, failed \in BOOLEAN : GetTeam(p, failed)
    \/ \E p \in Procs : PostUnknownTeam(p)
    \/ \E p \in Procs : InsertState(p)
    \/ \E p \in Procs : ScheduleJob(p)
    \/ \E p \in Procs : PostStatus(p)
    \/ \E p \in Procs : AddLabels(p)
    \/ \E d \in CommandTicks : Tick(d, MaxClock)

Spec == Init /\ [][Next]_vars

(* The job store under any sequence of its operations. *)
NextJobs ==
    \/ \E r \in Requests :
          InsertJob(r.name, r.job_type, r.expected_time, r.cron_period, r.cron_unit,
                    r.metadata)
    \/ \E id \in JobIds : DeleteJob(id)
    \/ \E id \in JobIds, msg \in ErrorMessages : UpdateJobErrorMessage(id, msg)
    \/ \E id \in JobIds : UpdateJobExecutedAt(id)
    \/ GetJobsToExecute
    \/ \E d \in JobTicks : Tick(d, MaxClockJobs)

SpecJobs == Init /\ [][NextJobs]_vars

----------------------------------------------------------------------------
(* Properties of the job store, under SpecJobs *)

SameKey(a, b) == a.name = b.name /\ a.expected_time = b.expected_time

(* C1: in every state the job store operations reach, no two stored jobs have
   the same (name, expected_time) pair. *)
UniqueNameExpectedTime ==
    \A a \in jobs, b \in jobs : SameKey(a, b) => a = b

(* Two rows are stored, and the row first submitted as a SingleExecution job
   with the Merge metadata has taken the metadata of a later request for its
   pair. *)
UpsertHitExistingPair ==
    /\ Cardinality(jobs) = 2
    /\ \E j \in jobs : /\ j.name = "docs_update"
                        /\ j.job_type = "SingleExecution"
                        /\ j.expected_time = RETRY_MINUTES - 1
                        /\ j.metadata.status = "Hold"

(* C2: an upsert whose (name, expected_time) matches a stored job leaves that
   one row in place of it, with the request's metadata and with its id, kind,
   cron_period, cron_unit, executed_at and error_message as they were, and
   leaves every other row alone. *)
UpsertReplacesOnlyMetadata ==
    [][\A r \in Requests : \A j \in jobs :
          (/\ SameKey(j, r)
           /\ InsertJob(r.name, r.job_type, r.expected_time, r.cron_period,
                        r.cron_unit, r.metadata))
          => /\ jobs' = (jobs \ {j}) \cup {[j EXCEPT !.metadata = r.metadata]}
             /\ \E k \in jobs' : /\ SameKey(k, r)
                                  /\ k.metadata = r.metadata
                                  /\ k.id = j.id
                                  /\ k.job_type = j.job_type
                                  /\ k.cron_period = j.cron_period
                                  /\ k.cron_unit = j.cron_unit
                                  /\ k.executed_at = j.executed_at
                                  /\ k.error_message = j.error_message]_vars

(* The row first submitted as a Cron job has taken the metadata of the later
   SingleExecution request for its pair, after an execution and an error were
   recorded on it, and is still a Cron job. *)
CronRowTookLaterMetadata ==
    \E j \in jobs : /\ j.job_type = "Cron"
                    /\ j.cron_period = {2}
                    /\ j.metadata.status = "Merge"
                    /\ j.executed_at # {}
                    /\ j.error_message # {}

(* C3: get_jobs_to_execute never returns a job whose expected_time is
   strictly after the time of the call. *)
DueNeverEarly ==
    \A j \in due : \A t \in dueAt : ~(j.expected_time > t)

(* A poll has just returned a job while another stored job was not yet
   expected. *)
PollSkippedFutureJob ==
    /\ dueAt = {now}
    /\ due # {}
    /\ due = DueJobs(jobs, now)
    /\ \E j \in jobs : j.expected_time > now /\ j \notin due

(* C4: a job with a recorded error is returned by a poll at time t only if
   its executed_at is set and at least 60 minutes before t. *)
FailedJobBackoff ==
    \A j \in due : \A t \in dueAt :
        j.error_message # {} =>
            /\ j.executed_at # {}
            /\ \A e \in j.executed_at : t - e >= 60

(* A poll has just returned a failed job, 60 minutes after its execution,
   and left out another failed job. *)
FailedJobRetried ==
    /\ dueAt = {now}
    /\ \E j \in due : j.error_message # {} /\ j.executed_at = {now - 60}
    /\ \E j \in jobs : j.error_message # {} /\ j.expected_time <= now /\ j \notin due

----------------------------------------------------------------------------
(* Properties of handle_command, under Spec *)

(* The rows of the decision table that invocation p inserted: the vote in
   them points at the comment that carried p's command. *)
RowsBy(p) ==
    {i \in DOMAIN decisions :
        \E u \in DOMAIN decisions[i].current :
            \E st \in decisions[i].current[u] : st.comment_id = HtmlUrl(p)}

HasBallot(issue) == \E i \in DOMAIN decisions : decisions[i].issue_id = issue

FoundExisting(p) == loc[p].state = {TRUE}

(* p's step, if this is one *)
Stepped(p) == pc'[p] # pc[p]

(* C5, as amended: an invocation whose issue has a DecisionState when it looks
   takes the "unsupported" arm; it inserts no DecisionState, schedules no job,
   applies no label, and either posts the "unsupported" comment alone and
   returns Ok, or fails to post it and returns that error with nothing posted. *)
ExistingBallotRejected ==
    [][\A p \in Procs :
          /\ (pc[p] = "get_state" /\ Stepped(p) /\ HasBallot(cmd[p].issue))
                => FoundExisting(p)'
          /\ FoundExisting(p)' =>
                /\ pc'[p] \in {"post_unsupported", "ok", "err"}
                /\ RowsBy(p)' = {}
                /\ labels'[p] = {}
                /\ Stepped(p) => (decisions' = decisions /\ jobs' = jobs)
                /\ pc'[p] = "ok" => comments'[p] = <<UnsupportedComment>>
                /\ pc'[p] # "ok" => comments'[p] = <<>>]_vars

(* An invocation found the ballot another invocation had opened, posted the
   "unsupported" comment and returned Ok. *)
SecondVoteRejected ==
    \E p \in Procs, q \in Procs :
        /\ p # q
        /\ FoundExisting(p)
        /\ pc[p] = "ok"
        /\ comments[p] = <<UnsupportedComment>>
        /\ RowsBy(q) # {}
        /\ Len(decisions) = 1

(* C5, as stated: an invocation that finds a DecisionState for its issue
   creates none and always ends with the "unsupported" comment and Ok. *)
ExistingBallotAlwaysCommented ==
    \A p \in Procs :
        FoundExisting(p) =>
            /\ RowsBy(p) = {}
            /\ \/ pc[p] = "post_unsupported"
               \/ pc[p] = "ok" /\ comments[p] = <<UnsupportedComment>>

(* C6: at most one DecisionState exists per issue, in every reachable state. *)
OneDecisionPerIssue ==
    \A i \in DOMAIN decisions, k \in DOMAIN decisions :
        decisions[i].issue_id = decisions[k].issue_id => i = k

NotMember(p) == \E a \in loc[p].is_team_member : a # "Ok(true)"
NoTeamName(p) == loc[p].is_team_member = {"Ok(true)"} /\ cmd[p].team = {}
UnknownTeam(p) == \E t \in loc[p].team : ~t.ok \/ t.members = {}

Rejected(p) == NotMember(p) \/ NoTeamName(p) \/ UnknownTeam(p)

RejectionPc(p) ==
    IF NotMember(p) THEN "post_not_member"
    ELSE IF NoTeamName(p) THEN "post_no_team" ELSE "post_unknown_team"

RejectionComment(p) ==
    IF NotMember(p) THEN NotMemberComment
    ELSE IF NoTeamName(p) THEN NoTeamComment ELSE UnknownTeamComment

(* C7, as amended: an invocation rejected because the user is not a team
   member (a failed lookup included), because no team name was given, or
   because the name resolves to no team, persists no DecisionState, schedules
   no job and applies no label, and either posts the one explanatory comment
   and returns Ok, or fails to post it and returns that error with nothing
   posted. No step an invocation takes up to the team lookup writes to either
   table. *)
RejectionPersistsNothing ==
    [][\A p \in Procs :
          /\ (pc[p] \in {"idle", "get_state", "is_team_member", "get_team"} /\ Stepped(p))
                => (decisions' = decisions /\ jobs' = jobs)
          /\ Rejected(p)' =>
                /\ pc'[p] \in {RejectionPc(p)', "ok", "err"}
                /\ RowsBy(p)' = {}
                /\ labels'[p] = {}
                /\ Stepped(p) => (decisions' = decisions /\ jobs' = jobs)
                /\ pc'[p] = "ok" => comments'[p] = <<RejectionComment(p)'>>
                /\ pc'[p] # "ok" => comments'[p] = <<>>]_vars

(* Each of the three rejections has returned Ok with its comment: one after a
   failed membership lookup, one in the other invocation for a missing team
   name or an unknown team. *)
RejectionsCommented ==
    \E p \in Procs, q \in Procs :
        /\ loc[p].is_team_member = {"Err"}
        /\ pc[p] = "ok" /\ comments[p] = <<NotMemberComment>>
        /\ (NoTeamName(q) \/ UnknownTeam(q))
        /\ pc[q] = "ok" /\ comments[q] = <<RejectionComment(q)>>
        /\ decisions = <<>> /\ jobs = {}

(* C7, as stated: a rejected invocation persists nothing, applies no label,
   posts exactly one explanatory comment and returns success. *)
RejectionAlwaysCommented ==
    \A p \in Procs :
        Rejected(p) =>
            /\ RowsBy(p) = {}
            /\ labels[p] = {}
            /\ \/ pc[p] = RejectionPc(p)
               \/ pc[p] = "ok" /\ comments[p] = <<RejectionComment(p)>>

ResolutionJobFor(d) ==
    {j \in jobs : /\ j.name = DECISION_PROCESS_JOB_NAME
                  /\ j.expected_time = d.end_date
                  /\ j.metadata.get_issue_url = IssueUrl(d.issue_id)}

(* C8: whenever no invocation is between its two inserts, every DecisionState
   has its resolution job stored and every resolution job its DecisionState. *)
BallotAndJobTogether ==
    (\A p \in Procs : pc[p] # "insert_job") =>
        /\ \A i \in DOMAIN decisions : ResolutionJobFor(decisions[i]) # {}
        /\ \A j \in jobs :
              j.name = DECISION_PROCESS_JOB_NAME =>
                  \E i \in DOMAIN decisions : j \in ResolutionJobFor(decisions[i])

(* C9: every persisted DecisionState maps the roster of the named team and
   the invoking user to an empty history, maps the invoking user to the vote
   cast and everyone else to no vote, and so has current and history on one
   set of participants. *)
InitialBallotShape ==
    /\ \A i \in DOMAIN decisions :
          LET d == decisions[i]
          IN /\ DOMAIN d.current = DOMAIN d.history
             /\ d.initiator \in DOMAIN d.current
             /\ \A u \in DOMAIN d.history : d.history[u] = <<>>
             /\ \A u \in DOMAIN d.current :
                   IF u = d.initiator
                   THEN /\ Cardinality(d.current[u]) = 1
                        /\ \A st \in d.current[u] : st.resolution = d.status
                   ELSE d.current[u] = {}
    /\ \A p \in Procs : \A i \in RowsBy(p) :
          LET d == decisions[i]
          IN /\ d.initiator = cmd[p].user
             /\ d.issue_id = cmd[p].issue
             /\ d.status = cmd[p].resolution
             /\ \A t \in cmd[p].team :
                   DOMAIN d.current = Teams[t] \cup {cmd[p].user}
             /\ d.current[cmd[p].user] =
                   {[comment_id |-> HtmlUrl(p), text |-> CommentBody(p),
                     resolution |-> cmd[p].resolution]}
    /\ \A p \in Procs :
          pc[p] \in {"insert_job", "post_status", "add_labels"} \/ labels[p] # {}
              => Cardinality(RowsBy(p)) = 1

(* Two invocations have returned Ok with their ballots stored: one by a user
   on the roster, one by a user off it. *)
BallotsOfRosterAndOutsider ==
    \E p \in Procs, q \in Procs :
        /\ pc[p] = "ok" /\ RowsBy(p) # {} /\ cmd[p].user \in Teams["compiler"]
        /\ pc[q] = "ok" /\ RowsBy(q) # {} /\ cmd[q].user \notin Teams["compiler"]

(* C10: every persisted DecisionState ends 10 days after it starts, and the
   step of handle_command that schedules the resolution job leaves exactly one
   job with the resolution name at that end time, of kind SingleExecution,
   with the issue reference and the cast resolution in its metadata, and
   changes no other job. *)
BallotWindowAndJob ==
    /\ [](\A i \in DOMAIN decisions :
            decisions[i].end_date = decisions[i].start_date + 10 * 24 * 60)
    /\ [][\A p \in Procs :
             (pc[p] = "insert_job" /\ pc'[p] = "post_status") =>
                 /\ RowsBy(p) # {}
                 /\ \A i \in RowsBy(p) :
                       LET d == decisions[i]
                           at(rows) == {j \in rows : /\ j.name = "decision_process_action"
                                                      /\ j.expected_time = d.end_date}
                       IN /\ Cardinality(at(jobs')) = 1
                          /\ \A j \in at(jobs') :
                                /\ j.job_type = "SingleExecution"
                                /\ j.metadata.get_issue_url = IssueUrl(cmd[p].issue)
                                /\ j.metadata.status = cmd[p].resolution
                          /\ jobs' \ at(jobs') = jobs \ at(jobs)]_vars

(* An invocation returned Ok with its label applied, and the job of its
   ballot is stored for the end of the ballot's window. *)
BallotOpenedAndScheduled ==
    \E p \in Procs :
        /\ pc[p] = "ok" /\ labels[p] # {}
        /\ \E i \in RowsBy(p) :
              \E j \in jobs : /\ j.expected_time = decisions[i].end_date
                              /\ j.metadata.get_issue_url = IssueUrl(cmd[p].issue)
                              /\ j.expected_time = now + 10 * 24 * 60

----------------------------------------------------------------------------
(* build_status_comment on its own: src/handlers/decision.rs, under SpecRender *)

MaxHistory == 2

RenderUsers == {"alice", "bob", "carol"}

(* The statuses of the tests of build_status_comment. *)
RenderStatuses ==
    {UserStatus("https://some-comment-id-for-merge.com", "something about merge", "Merge"),
     UserStatus("https://some-comment-id-for-hold.com", "something about hold", "Hold")}

SeqsUpTo(S, n) == UNION {[1..k -> S] : k \in 0..n}

(* history: BTreeMap<String, Vec<UserStatus>> *)
Histories ==
    UNION {[D -> SeqsUpTo(RenderStatuses, MaxHistory)] : D \in SUBSET RenderUsers}

OptionOf(S) == {{}} \cup {{x} : x \in S}

(* The calls of current.insert(user, status) that build the map, each user
   inserted at most once, in any order. *)
Inserts ==
    {q \in SeqsUpTo(RenderUsers \X OptionOf(RenderStatuses), Cardinality(RenderUsers)) :
        \A i \in DOMAIN q, k \in DOMAIN q : q[i][1] = q[k][1] => i = k}

(* BTreeMap::insert, call after call *)
BTreeMapOf(q) == [u \in {q[i][1] : i \in DOMAIN q} |->
                     LET i == CHOOSE k \in DOMAIN q : q[k][1] = u IN q[i][2]]

InitRender ==
    /\ InitStores
    /\ cron = NoCron
    /\ \E h \in Histories, q \in Inserts :
          render = [history |-> h, inserts |-> q, result |-> {}]

CallBuildStatusComment ==
    /\ render.result = {}
    /\ render' = [render EXCEPT
                     !.result = {BuildStatusComment(render.history,
                                                    BTreeMapOf(render.inserts))}]
    /\ UNCHANGED <<jobs, nextId, now, due, dueAt, cmdVars, cron, exec>>

NextRender == CallBuildStatusComment

SpecRender == InitRender /\ [][NextRender]_vars

Rendered == render.result # {}
RenderResult == CHOOSE r \in render.result : TRUE
RenderCurrent == BTreeMapOf(render.inserts)
NoHistoryUsers == DOMAIN RenderCurrent \ DOMAIN render.history

(* C11: build_status_comment fails with "user <name> not present in history
   statuses list" exactly when some key of current is not a key of history,
   and the user it names is the first such key in the order of the keys. *)
RenderErrorIffMissingHistory ==
    Rendered =>
        /\ RenderResult.err # {} <=> NoHistoryUsers # {}
        /\ \A e \in RenderResult.err :
              \E u \in NoHistoryUsers :
                 /\ e = <<"user ", u, " not present in history statuses list">>
                 /\ \A v \in NoHistoryUsers : UserRank[u] <= UserRank[v]

(* The render failed on a map of which two keys have no history, inserted
   last key first. *)
RenderFailedOnSecondInsert ==
    /\ Rendered
    /\ RenderResult.err # {}
    /\ Cardinality(NoHistoryUsers) = 2
    /\ Len(render.inserts) >= 2
    /\ UserRank[render.inserts[1][1]] > UserRank[render.inserts[2][1]]
    /\ {render.inserts[1][1], render.inserts[2][1]} = NoHistoryUsers

AscendingUsers == SelectSeq(<<"alice", "bob", "carol">>, LAMBDA u : u \in DOMAIN RenderCurrent)

ExpectedHistoryCells(h) ==
    [i \in 1..(5 * Len(h)) |->
        LET st == h[((i - 1) \div 5) + 1]
            k == ((i - 1) % 5) + 1
        IN IF k = 1 THEN " [~~"
           ELSE IF k = 2 THEN (IF st.resolution = "Merge" THEN "merge" ELSE "hold")
           ELSE IF k = 3 THEN "~~]("
           ELSE IF k = 4 THEN st.comment_id
           ELSE ") "]

ExpectedCurrentCell(c) ==
    IF c = {} THEN <<" ", " |">>
    ELSE LET st == CHOOSE x \in c : TRUE
         IN <<" ", "[**", IF st.resolution = "Merge" THEN "merge" ELSE "hold",
              "**](", st.comment_id, ")", " |">>

ExpectedRow(u) ==
    <<"\n| @", u, " |">> \o ExpectedHistoryCells(render.history[u])
        \o ExpectedCurrentCell(RenderCurrent[u])

ExpectedRowsFrom(i) ==
    IF i > Len(AscendingUsers) THEN <<>> ELSE ExpectedRow(AscendingUsers[i])

(* C12: when every key of current has a history, the rendered table is the
   header and separator followed by exactly one row per key of current, in
   ascending order of the keys whatever the order of insertion; a row is the
   user, the history entries struck through from the oldest to the newest,
   then the current vote in bold or an empty cell; a user who is only in
   history has no row. *)
RenderOneRowPerCurrentKey ==
    (Rendered /\ NoHistoryUsers = {}) =>
        /\ RenderResult.err = {}
        /\ RenderResult.text =
              <<"| Team member | State |\n|-------------|-------|">>
                 \o ExpectedRowsFrom(1) \o ExpectedRowsFrom(2) \o ExpectedRowsFrom(3)

(* A table was rendered of a map inserted last key first, with a user who has
   two history entries of different resolutions and a current vote, a user
   with no vote, and a user who is only in history. *)
RenderedUnorderedInserts ==
    /\ Rendered
    /\ RenderResult.err = {}
    /\ Len(render.inserts) = 2
    /\ UserRank[render.inserts[1][1]] > UserRank[render.inserts[2][1]]
    /\ DOMAIN render.history \ DOMAIN RenderCurrent # {}
    /\ \E u \in DOMAIN RenderCurrent :
          /\ Len(render.history[u]) = 2
          /\ render.history[u][1].resolution # render.history[u][2].resolution
          /\ RenderCurrent[u] # {}
    /\ \E u \in DOMAIN RenderCurrent : RenderCurrent[u] = {}

----------------------------------------------------------------------------
(* get_duration_from_cron on its own: src/db/jobs.rs, under SpecCron *)

MaxPeriod == 20

DAY_IN_SECONDS == 86400
HOUR_IN_SECONDS == 3600
MINUTE_IN_SECONDS == 60

I32_MAX == 2147483647

(* An integer of the program is its little-endian bytes in two's complement:
   four for an i32 and eight for an i64. *)
RECURSIVE LeBytes(_, _)
LeBytes(n, width) ==
    IF width = 0 THEN <<>> ELSE <<n % 256>> \o LeBytes(n \div 256, width - 1)

SignByte(bytes) == IF bytes[Len(bytes)] >= 128 THEN 255 ELSE 0

(* `cron_period as i64`: the four bytes of the i32, sign-extended to eight *)
AsI64(bytes) == bytes \o [i \in 1..4 |-> SignByte(bytes)]

(* Duration::seconds *)
DurationSeconds(seconds) == [secs |-> seconds, nanos |-> 0]

(* Wrapping multiplication of an integer, given by its bytes, by a
   non-negative factor: byte by byte, the carry moving up and the carry out of
   the last byte dropped. *)
RECURSIVE MulWrapping(_, _, _)
MulWrapping(bytes, rhs, carry) ==
    IF bytes = <<>> THEN <<>>
    ELSE LET d == Head(bytes) * rhs + carry
         IN <<d % 256>> \o MulWrapping(Tail(bytes), rhs, d \div 256)

(* The seconds multiplied as an i32 and widened afterwards. *)
DurationMulAsI32(d, rhs) ==
    [secs |-> AsI64(MulWrapping(SubSeq(d.secs, 1, 4), rhs, 0)), nanos |-> 0]

(* impl Mul<i32> for Duration: secs * (rhs as i64) in i64, and the
   nanoseconds, which are zero here, carry nothing into the seconds. *)
DurationMul(d, rhs) ==
    [secs |-> MulWrapping(d.secs, rhs, 0), nanos |-> (d.nanos * rhs) % 1000000000]

GetDurationFromCron(cron_period, cron_unit) ==
    LET seconds == DurationSeconds(AsI64(LeBytes(cron_period, 4)))
    IN CASE cron_unit = "Day" -> DurationMul(seconds, DAY_IN_SECONDS)
         [] cron_unit = "Hour" -> DurationMul(seconds, HOUR_IN_SECONDS)
         [] cron_unit = "Minute" -> DurationMul(seconds, MINUTE_IN_SECONDS)
         [] cron_unit = "Second" -> seconds

(* The non-negative periods of an i32: the small ones, and for each unit the
   last period of which the product still fits 32 bits and the first of which
   it does not, up to the largest i32. *)
CronPeriods ==
    (0..MaxPeriod) \cup {I32_MAX \div DAY_IN_SECONDS, I32_MAX \div DAY_IN_SECONDS + 1,
                         I32_MAX \div HOUR_IN_SECONDS, I32_MAX \div HOUR_IN_SECONDS + 1,
                         I32_MAX \div MINUTE_IN_SECONDS, I32_MAX \div MINUTE_IN_SECONDS + 1,
                         I32_MAX - 1, I32_MAX}

InitCron ==
    /\ InitStores
    /\ render = NoRender
    /\ \E period \in CronPeriods, unit \in CronUnit :
          cron = [cron_period |-> period, cron_unit |-> unit, result |-> {}]

CallGetDurationFromCron ==
    /\ cron.result = {}
    /\ cron' = [cron EXCEPT
                   !.result = {GetDurationFromCron(cron.cron_period, cron.cron_unit)}]
    /\ UNCHANGED <<jobs, nextId, now, due, dueAt, cmdVars, render, exec>>

NextCron == CallGetDurationFromCron

SpecCron == InitCron /\ [][NextCron]_vars

CronResult == CHOOSE d \in cron.result : TRUE

(* Long division of an integer, given by its little-endian bytes, by f: the
   bytes of the quotient and the remainder. *)
RECURSIVE QuotRem(_, _)
QuotRem(bytes, f) ==
    IF bytes = <<>> THEN [q |-> <<>>, r |-> 0]
    ELSE LET hi == QuotRem(Tail(bytes), f)
             cur == hi.r * 256 + Head(bytes)
         IN [q |-> <<cur \div f>> \o hi.q, r |-> cur % f]

SecondsPer(unit) ==
    IF unit = "Day" THEN 86400
    ELSE IF unit = "Hour" THEN 3600
    ELSE IF unit = "Minute" THEN 60
    ELSE 1

(* C13: for every non-negative 32-bit period, the duration is a whole number
   of seconds that is exactly period * 1, 60, 3600 or 86400 for Second,
   Minute, Hour and Day: a non-negative i64 which divided by that factor gives
   the period back with no remainder, so nothing wrapped on the way. *)
DurationIsPeriodTimesUnit ==
    cron.result # {} =>
        /\ CronResult.nanos = 0
        /\ Len(CronResult.secs) = 8
        /\ CronResult.secs[8] < 128
        /\ QuotRem(CronResult.secs, SecondsPer(cron.cron_unit)) =
              [q |-> <<cron.cron_period % 256,
                       (cron.cron_period \div 256) % 256,
                       (cron.cron_period \div 65536) % 256,
                       cron.cron_period \div 16777216, 0, 0, 0, 0>>,
               r |-> 0]

(* The duration of the largest i32 in days was computed, which needs more
   than 32 bits. *)
DurationOfLargestPeriodInDays ==
    /\ cron.result # {}
    /\ cron.cron_period = 2147483647
    /\ cron.cron_unit = "Day"
    /\ \E i \in 5..8 : CronResult.secs[i] # 0

----------------------------------------------------------------------------
(* More properties of the job store, under SpecJobs *)

NeverFailed(j) == j.error_message = {}

(* C16, as stated: a never-failed due job is returned by every poll until
   update_job_executed_at is called for it, and a poll that directly follows
   that call does not select it: no poll returns a never-failed job whose
   executed_at is the time of the poll. *)
ExecutedJobNotReselected ==
    \A j \in due : NeverFailed(j) => j.executed_at # dueAt

(* C16, amended: every poll returns every stored job that has never failed and
   whose expected_time has been reached, whether or not
   update_job_executed_at has been called for it. *)
NeverFailedJobAlwaysSelected ==
    [][(jobs' = jobs /\ now' = now /\ <<due, dueAt>>' # <<due, dueAt>>) =>
          \A j \in jobs : (NeverFailed(j) /\ j.expected_time <= now) => j \in due']_vars

(* A poll returned a never-failed job in the minute in which it was recorded
   as executed, and the job is still stored. *)
ExecutedJobReselected ==
    \E j \in due : /\ j \in jobs
                   /\ NeverFailed(j)
                   /\ j.executed_at = {now}
                   /\ dueAt = {now}

(* C18: a step that changes the error_message of a stored job changes nothing
   else of that job and no other job; a step that changes the executed_at of
   a stored job sets it to the current time and changes nothing else of that
   job and no other job. *)
RecordsChangeOneColumn ==
    [][\A j \in jobs, k \in jobs' :
          j.id = k.id =>
             /\ k.error_message # j.error_message =>
                   /\ k = [j EXCEPT !.error_message = k.error_message]
                   /\ jobs' \ {k} = jobs \ {j}
             /\ k.executed_at # j.executed_at =>
                   /\ k = [j EXCEPT !.executed_at = {now}]
                   /\ jobs' \ {k} = jobs \ {j}]_vars

(* One job has failed at a time later than its last execution was recorded,
   and the other job has neither an error nor an execution time. *)
RecordedErrorAndExecution ==
    \E j \in jobs, o \in jobs :
       /\ j.error_message # {}
       /\ \E e \in j.executed_at : e < now
       /\ o.error_message = {}
       /\ o.executed_at = {}

----------------------------------------------------------------------------
(* The order of the checks of handle_command, under Spec *)

(* The only comment p may have posted is text: it is posted once p has
   returned Ok, and nothing is posted if p has returned an error. *)
OnlyComment(p, text) ==
    /\ comments[p] \in {<<>>, <<text>>}
    /\ pc[p] = "ok" => comments[p] = <<text>>
    /\ pc[p] = "err" => comments[p] = <<>>

(* C19: handle_command checks for an existing ballot, then the membership of
   the user, then the presence of a team name, then the team directory, and
   reacts to the first check that fails only: with a ballot on the issue it
   asks for neither membership nor team and posts the "unsupported" comment
   alone; a user who is not a member, team name given or not, gets the
   "only team members" comment alone and the directory is not asked; a member
   without a team name gets the "specify the team name" comment alone; the
   directory is asked only after no ballot was found, the user is a member
   and a team name is given. *)
ChecksInOrder ==
    \A p \in Procs :
       /\ loc[p].state = {TRUE} =>
             /\ loc[p].is_team_member = {} /\ loc[p].team = {}
             /\ OnlyComment(p, "We don't support having more than one vote yet. Coming soon :)")
       /\ loc[p].is_team_member # {} => loc[p].state = {FALSE}
       /\ (\E a \in loc[p].is_team_member : a \in {"Err", "Ok(false)"}) =>
             /\ loc[p].team = {}
             /\ pc[p] \in {"post_not_member", "ok", "err"}
             /\ OnlyComment(p, "Only team members can be part of the decision process.")
       /\ (loc[p].is_team_member = {"Ok(true)"} /\ cmd[p].team = {}) =>
             /\ loc[p].team = {}
             /\ pc[p] \in {"post_no_team", "ok", "err"}
             /\ OnlyComment(p, "In the first vote, is necessary to specify the team name that will be involved in the decision process.")
       /\ (pc[p] = "get_team" \/ loc[p].team # {}) =>
             /\ loc[p].state = {FALSE}
             /\ loc[p].is_team_member = {"Ok(true)"}
             /\ cmd[p].team # {}

(* One invocation went through the four checks and opened a ballot; the other,
   by a user outside the roster who gave no team name, on the same issue, was
   answered with the "unsupported" comment. *)
OutsiderOnBallotUnsupported ==
    \E p \in Procs, q \in Procs :
       /\ RowsBy(p) # {}
       /\ cmd[q].issue = cmd[p].issue
       /\ cmd[q].user = "carol"
       /\ cmd[q].team = {}
       /\ loc[q].state = {TRUE}
       /\ pc[q] = "ok"
       /\ comments[q] = <<UnsupportedComment>>

----------------------------------------------------------------------------
(* The execution of due jobs: src/handlers/jobs.rs and DecisionProcessJob of
   src/handlers/decision.rs, under SpecRun *)

(* The issue number of the issue behind get_issue_url *)
IssueOfUrl(url) == url[3]

(* serde_json::from_value::<DecisionProcessActionMetadata>(metadata) is Ok *)
Parses(metadata) == metadata.status \in Resolutions

(* What an execution did: the handler that ran, the result of fetching the
   issue if it was fetched, what was done to the issue, and the result. *)
Outcome(handler, fetched, actions, result) ==
    [handler |-> handler, fetched |-> fetched, actions |-> actions, result |-> result]

(* issue.merge(&gh_client) *)
Merged(issue) == [kind |-> "merge", issue |-> issue, users |-> <<>>, body |-> <<>>]

(* PingComment::new(&issue, &users_ref, format!(..)).post(&gh_client) *)
Pinged(issue, users, status) ==
    [kind |-> "ping", issue |-> issue, users |-> users,
     body |-> <<"The final comment period has resolved, with a decision to **",
                Display(status), "**. Ping involved people once again.">>]

(* The Err arm of the fetch returning the error. *)
FetchFailedAsError(handler) == Outcome(handler, {FALSE}, <<>>, "err")

(* Err(e) => log::error!("Failed to get issue {}, error: {}", ..), then Ok(()) *)
FetchFailed(handler) == Outcome(handler, {FALSE}, <<>>, "ok")

(* decision_process_handler of handlers/jobs.rs; fetch_ok and merge_ok are the
   results of the two requests *)
DecisionProcessHandler(metadata, fetch_ok, merge_ok) ==
    IF ~Parses(metadata)
    THEN Outcome("decision_process_handler", {}, <<>>, "err")
    ELSE IF metadata.status = "Merge"
    THEN IF ~fetch_ok THEN FetchFailed("decision_process_handler")
         ELSE IF merge_ok
         THEN Outcome("decision_process_handler", {TRUE},
                      <<Merged(IssueOfUrl(metadata.get_issue_url))>>, "ok")
         ELSE Outcome("decision_process_handler", {TRUE}, <<>>, "err")
    ELSE Outcome("decision_process_handler", {}, <<>>, "ok")

(* The fall-through arm returning an error. *)
DefaultAsError(name, metadata) == Outcome("default", {}, <<>>, "err")

(* default(&name, &metadata): a trace line and Ok(()) *)
Default(name, metadata) == Outcome("default", {}, <<>>, "ok")

(* handle_job of handlers/jobs.rs; ext_ok is the result of what the handler
   asks of the outside after the fetch *)
HandleJobOutcome(name, metadata, fetch_ok, ext_ok) ==
    CASE name = "docs_update" ->
            Outcome("docs_update", {}, <<>>, IF ext_ok THEN "ok" ELSE "err")
      [] name = "rustc_commits" -> Outcome("rustc_commits", {}, <<>>, "ok")
      [] name = DECISION_PROCESS_JOB_NAME ->
            DecisionProcessHandler(metadata, fetch_ok, ext_ok)
      [] OTHER -> Default(name, metadata)

(* DecisionProcessJob::run; rows is the decision store *)
RunOutcome(metadata, rows, fetch_ok, post_ok) ==
    IF ~Parses(metadata)
    THEN Outcome("DecisionProcessJob", {}, <<>>, "err")
    ELSE IF ~fetch_ok THEN FetchFailed("DecisionProcessJob")
    ELSE LET number == IssueOfUrl(metadata.get_issue_url)
             state == GetIssueDecisionState(rows, number)
         IN IF state = {}
            THEN Outcome("DecisionProcessJob", {TRUE}, <<>>, "panic")
            ELSE IF post_ok
            THEN LET users == SortedKeys(DOMAIN (CHOOSE d \in state : TRUE).current)
                 IN Outcome("DecisionProcessJob", {TRUE},
                            <<Pinged(number, users, metadata.status)>>, "ok")
            ELSE Outcome("DecisionProcessJob", {TRUE}, <<>>, "err")

Execution(j, via, outcome) ==
    [name |-> j.name, metadata |-> j.metadata, via |-> via, outcome |-> outcome]

(* A job of the last poll is handed to handle_job. *)
HandleJob(j, fetch_ok, ext_ok) ==
    /\ j \in due
    /\ exec' = {Execution(j, "handle_job",
                          HandleJobOutcome(j.name, j.metadata, fetch_ok, ext_ok))}
    /\ UNCHANGED <<jobVars, now, cmdVars, render, cron>>

(* The run that also closes the ballot it has pinged. *)
RunDecisionProcessJobClosing(j, fetch_ok, post_ok) ==
    /\ j \in due
    /\ j.name = DECISION_PROCESS_JOB_NAME
    /\ LET outcome == RunOutcome(j.metadata, decisions, fetch_ok, post_ok)
       IN /\ exec' = {Execution(j, "run", outcome)}
          /\ decisions' =
                IF outcome.actions = <<>> THEN decisions
                ELSE SelectSeq(decisions,
                               LAMBDA d : d.issue_id # IssueOfUrl(j.metadata.get_issue_url))
    /\ UNCHANGED <<jobVars, now, pc, cmd, loc, comments, labels, render, cron>>

(* A job of the last poll that carries the name of DecisionProcessJob is run
   by it. *)
RunDecisionProcessJob(j, fetch_ok, post_ok) ==
    /\ j \in due
    /\ j.name = DECISION_PROCESS_JOB_NAME
    /\ exec' = {Execution(j, "run", RunOutcome(j.metadata, decisions, fetch_ok, post_ok))}
    /\ UNCHANGED <<jobVars, now, cmdVars, render, cron>>

Command(issue, user, resolution, team_name) ==
    [issue |-> issue, user |-> user, resolution |-> resolution, team |-> team_name]

RunCommands ==
    {Command(1, "alice", "Merge", {"compiler"}),
     Command(1, "carol", "Hold", {"compiler"}),
     Command(1, "carol", "Hold", {}),
     Command(2, "alice", "Hold", {"compiler"})}

(* Metadata that is no DecisionProcessActionMetadata *)
Malformed == Metadata(IssueUrl(2), "no such resolution")

RunRequests ==
    {Request("no_such_job", "SingleExecution", 0, {}, {}, Metadata(IssueUrl(1), "Merge")),
     Request("no_such_job", "Cron", 0, {1}, {"Day"}, Malformed),
     Request("rustc_commits", "Cron", 0, {1}, {"Hour"}, Malformed),
     Request("docs_update", "SingleExecution", 0, {}, {}, Malformed),
     Request(DECISION_PROCESS_JOB_NAME, "SingleExecution", 0, {}, {}, Malformed),
     Request(DECISION_PROCESS_JOB_NAME, "SingleExecution", 0, {}, {},
             Metadata(IssueUrl(1), "Merge"))}

(* Jobs scheduled by any caller, the poll, and the execution of the jobs it
   returned, with no ballot stored. *)
NextDispatch ==
    \/ \E r \in RunRequests :
          InsertJob(r.name, r.job_type, r.expected_time, r.cron_period, r.cron_unit,
                    r.metadata)
    \/ GetJobsToExecute
    \/ \E j \in due, fetch_ok \in BOOLEAN, ext_ok \in BOOLEAN : HandleJob(j, fetch_ok, ext_ok)
    \/ \E j \in due, fetch_ok \in BOOLEAN, post_ok \in BOOLEAN :
          RunDecisionProcessJob(j, fetch_ok, post_ok)
    \/ \E d \in JobTicks : Tick(d, MaxClockJobs)

SpecDispatch == Init /\ [][NextDispatch]_vars

NoneInFlight == \A q \in Procs : pc[q] \in {"idle", "ok", "err"}

(* Decision commands one after the other, the poll, and the execution of the
   jobs it returned. *)
NextRun ==
    \/ \E p \in Procs, c \in RunCommands :
          NoneInFlight /\ HandleCommand(p, c.issue, c.user, c.resolution, c.team)
    \/ \E p \in Procs : GetState(p)
    \/ \E p \in Procs : PostUnsupported(p)
    \/ \E p \in Procs, answer \in MemberAnswers : IsTeamMember(p, answer)
    \/ \E p \in Procs : PostNotMember(p)
    \/ \E p \in Procs : PostNoTeam(p)
    \/ \E p \in Procs, failed \in BOOLEAN : GetTeam(p, failed)
    \/ \E p \in Procs : PostUnknownTeam(p)
    \/ \E p \in Procs : InsertState(p)
    \/ \E p \in Procs : ScheduleJob(p)
    \/ \E p \in Procs : PostStatus(p)
    \/ \E p \in Procs : AddLabels(p)
    \/ GetJobsToExecute
    \/ \E j \in due, fetch_ok \in BOOLEAN, ext_ok \in BOOLEAN : HandleJob(j, fetch_ok, ext_ok)
    \/ \E j \in due, fetch_ok \in BOOLEAN, post_ok \in BOOLEAN :
          RunDecisionProcessJob(j, fetch_ok, post_ok)
    \/ \E d \in CommandTicks : Tick(d, MaxClock)

SpecRun == Init /\ [][NextRun]_vars

----------------------------------------------------------------------------
(* Properties of the execution of jobs *)

Executed(e) == exec' # exec /\ e \in exec'

(* C14, under SpecDispatch: handle_job with a name that is none of the names
   it knows returns Ok whatever the metadata is, runs none of the handlers,
   fetches nothing, does nothing to any issue, and leaves the job store, the
   decision store, the clock and every invocation as they were. *)
UnknownJobIsNoOp ==
    [][\A e \in exec' :
          (/\ Executed(e)
           /\ e.via = "handle_job"
           /\ e.name \notin {"docs_update", "rustc_commits", "decision_process_action"}) =>
             /\ e.outcome.result = "ok"
             /\ e.outcome.handler \notin {"docs_update", "rustc_commits",
                                          "decision_process_handler", "DecisionProcessJob"}
             /\ e.outcome.fetched = {}
             /\ e.outcome.actions = <<>>
             /\ UNCHANGED <<jobs, nextId, now, due, dueAt, decisions, pc, cmd, loc,
                            comments, labels>>]_vars

(* handle_job was given a stored job of an unknown name whose metadata is no
   decision metadata, next to a job of a known name. *)
UnknownJobDispatched ==
    \E e \in exec :
       /\ e.via = "handle_job"
       /\ e.name = "no_such_job"
       /\ ~Parses(e.metadata)
       /\ e.outcome.result = "ok"
       /\ \E j \in jobs : j.name = e.name /\ j.metadata = e.metadata
       /\ \E j \in jobs : j.name = "rustc_commits"

(* C15, under SpecRun: an execution of the decision-resolution job that
   fetched the issue and returned Ok has done exactly one thing, a ping
   comment on that issue addressed to all the keys of current of the issue's
   DecisionState that announces the resolution of the metadata, whichever the
   resolution is. *)
ResolutionJobPingsParticipants ==
    \A e \in exec :
       (/\ e.name = "decision_process_action"
        /\ e.outcome.fetched = {TRUE}
        /\ e.outcome.result = "ok") =>
          /\ Len(e.outcome.actions) = 1
          /\ e.outcome.actions[1].kind = "ping"
          /\ e.outcome.actions[1].issue = e.metadata.get_issue_url[3]
          /\ \E i \in DOMAIN decisions :
                /\ decisions[i].issue_id = e.metadata.get_issue_url[3]
                /\ {e.outcome.actions[1].users[k] :
                       k \in DOMAIN e.outcome.actions[1].users} =
                      DOMAIN decisions[i].current
          /\ e.outcome.actions[1].body =
                <<"The final comment period has resolved, with a decision to **",
                  IF e.metadata.status = "Merge" THEN "merge" ELSE "hold",
                  "**. Ping involved people once again.">>

(* C17, under SpecRun: an execution of the decision-resolution job in which
   the fetch of the issue failed returns Ok, does nothing to the issue, and
   leaves the decision store, the job store, the comments and the labels as
   they were. *)
FetchFailureSwallowed ==
    [][\A e \in exec' :
          (/\ Executed(e)
           /\ e.name = "decision_process_action"
           /\ e.outcome.fetched = {FALSE}) =>
             /\ e.outcome.result = "ok"
             /\ e.outcome.actions = <<>>
             /\ UNCHANGED <<jobs, nextId, decisions, comments, labels>>]_vars

(* DecisionProcessJob ran the job of a stored ballot and could not fetch the
   issue. *)
FetchFailedOnBallotJob ==
    \E e \in exec :
       /\ e.via = "run"
       /\ e.outcome.fetched = {FALSE}
       /\ \E i \in DOMAIN decisions : decisions[i].issue_id = e.metadata.get_issue_url[3]
       /\ \E j \in jobs : j.name = e.name /\ j.metadata = e.metadata

(* C20, under SpecRun: a DecisionState that is stored stays stored and stays
   as it is, in every step: the steps of later commands on its issue and the
   executions of the resolution job included. *)
BallotNeverChanges ==
    [][\A i \in DOMAIN decisions :
          i \in DOMAIN decisions' /\ decisions'[i] = decisions[i]]_vars

(* A ballot is stored as it was opened, a later command on its issue has
   returned, and its resolution job has run and pinged its participants. *)
BallotKeptAfterCommandAndJob ==
    \E p \in Procs, q \in Procs, e \in exec :
       /\ \E i \in RowsBy(p) :
             /\ decisions[i].issue_id = cmd[q].issue
             /\ decisions[i].issue_id = e.metadata.get_issue_url[3]
             /\ decisions[i].initiator = cmd[p].user
             /\ decisions[i].end_date = now
       /\ loc[q].state = {TRUE}
       /\ pc[q] = "ok"
       /\ e.via = "run"
       /\ e.outcome.actions # <<>>

----------------------------------------------------------------------------
(* The retry of failed jobs, under SpecRetry *)

(* The clock advances by the retry window. *)
RetryTicks == {RETRY_MINUTES}

(* The execution time can be recorded while a retry window still fits before
   the end of the clock, so that every recorded execution time gets old
   enough for the retry. *)
RetryWindowFits == now + RETRY_MINUTES <= MaxClockJobs

PollJobs == GetJobsToExecute

AdvanceClock == \E d \in RetryTicks : Tick(d, MaxClockJobs)

(* The job store under any sequence of its operations, polled again and again
   while the clock advances. *)
NextRetry ==
    \/ \E r \in Requests :
          InsertJob(r.name, r.job_type, r.expected_time, r.cron_period, r.cron_unit,
                    r.metadata)
    \/ \E id \in JobIds : DeleteJob(id)
    \/ \E id \in JobIds, msg \in ErrorMessages : UpdateJobErrorMessage(id, msg)
    \/ \E id \in JobIds : RetryWindowFits /\ UpdateJobExecutedAt(id)
    \/ PollJobs
    \/ AdvanceClock

SpecRetry ==
    Init /\ [][NextRetry]_vars /\ WF_vars(PollJobs) /\ WF_vars(AdvanceClock)

(* C21: a stored job whose expected_time has passed and whose error_message
   is set is returned, as a failed job, by a later poll, unless it is deleted
   first; whether its executed_at is set or not. *)
FailedJobEventuallyRetried ==
    \A id \in JobIds :
       (\E j \in jobs : j.id = id /\ j.error_message # {} /\ j.expected_time <= now)
          ~> (\/ \E j \in due : j.id = id /\ j.error_message # {}
              \/ \A j \in jobs : j.id # id)

----------------------------------------------------------------------------
(* Ballots opened at the same time, under Spec *)

AllSucceeded == \A p \in Procs : pc[p] \in {"idle", "ok"}

DistinctIssues ==
    \A i \in DOMAIN decisions, k \in DOMAIN decisions :
       decisions[i].issue_id = decisions[k].issue_id => i = k

(* C22: when every handle_command so far has returned Ok and the ballots are
   on distinct issues, every stored DecisionState has a stored job named
   "decision_process_action" whose expected_time is the end_date of the ballot
   and whose metadata has the url of the ballot's issue, the ballots that
   were opened at the same time included. *)
EveryBallotHasItsOwnJob ==
    (AllSucceeded /\ DistinctIssues) =>
       \A i \in DOMAIN decisions :
          \E j \in jobs :
             /\ j.name = "decision_process_action"
             /\ j.expected_time = decisions[i].end_date
             /\ j.metadata.get_issue_url[3] = decisions[i].issue_id

----------------------------------------------------------------------------
(* The ballot behind a resolution job, under SpecRun *)

(* C23: every stored resolution job that handle_command scheduled has a
   stored DecisionState for the issue of its metadata, and every run of
   DecisionProcessJob that fetched the issue found one: the unwrap of the
   lookup did not panic. *)
RunFindsBallot ==
    /\ \A j \in jobs :
          j.name = "decision_process_action" =>
             \E i \in DOMAIN decisions :
                decisions[i].issue_id = j.metadata.get_issue_url[3]
    /\ \A e \in exec :
          (e.via = "run" /\ e.outcome.fetched = {TRUE}) =>
             /\ e.outcome.result \in {"ok", "err"}
             /\ \E i \in DOMAIN decisions :
                   decisions[i].issue_id = e.metadata.get_issue_url[3]

(* DecisionProcessJob ran the job of the ballot on issue 2 while the command
   that opened it had not returned yet, fetched the issue and went past the
   lookup. *)
RunWentPastLookup ==
    \E e \in exec, p \in Procs :
       /\ e.via = "run"
       /\ e.outcome.fetched = {TRUE}
       /\ e.metadata.get_issue_url[3] = 2
       /\ cmd[p].issue = 2
       /\ pc[p] \in {"post_status", "add_labels"}
       /\ RowsBy(p) # {}

====
